---- MODULE Spec2Model ----
(***************************************************************************)
(* TokenManager (src/backend/services/tokenManager.js): the credential     *)
(* lifecycle manager of the dashboard backend.                             *)
(*                                                                         *)
(* JavaScript runs the manager on one thread: a handler runs without       *)
(* interruption from its start to its next `await` of a network call (or   *)
(* to its end).  Every action below is one such uninterrupted run: a       *)
(* trigger (timer or manualRotate) up to the first outbound call, or the   *)
(* arrival of a response up to the next outbound call.                     *)
(*                                                                         *)
(* Environment values (tokens, client id/secret) are either undefined or   *)
(* a non-empty string.  Time is counted in units of 1.25 hours, so that    *)
(* the rotation interval of 2.5 hours is 2 units.                          *)
(***************************************************************************)
EXTENDS Integers, Sequences, FiniteSets, TLC

\* ------------------------------------------------------------------ bounds
\* The clock stops at MaxTime.
MaxTime == 3
\* Number of rotateToken invocations that can be suspended at once.
MaxAttempts == 2

\* ------------------------------------------------------------- vocabulary
\* JavaScript's undefined.
None == "undefined"
\* The values of PORT_API_TOKEN_PRIMARY / _SECONDARY / PORT_SERVICE_TOKEN.
StaticPrimary == "tok-A"
StaticSecondary == "tok-B"
StaticService == "tok-S"
\* Access tokens the issuance endpoint can hand out.
GenTokens == {"tok-G1", "tok-G2"}
\* What a 200 response's accessToken field can hold (a body without the
\* field destructures to undefined).
IssuedValues == GenTokens \cup {None}
AllTokens == {StaticPrimary, StaticSecondary} \cup GenTokens
Slots == 1..MaxAttempts

\* JavaScript truthiness of an optional string.
Truthy(x) == x # None /\ x # ""

\* this.rotationInterval = 2.5 * 60 * 60 * 1000, in units of 1.25 hours.
rotationInterval == 2

VARIABLES
    tokens,             \* this.tokens: primary, secondary, service
    clientCredentials,  \* this.clientCredentials: clientId, clientSecret
    currentToken,       \* this.currentToken
    lastRotation,       \* this.lastRotation
    isRotating,         \* this.isRotating
    now,                \* Date.now()
    nextFire,           \* when the setInterval timer fires next
    att,                \* the rotateToken invocations, one record per slot
    initPc,             \* initializeTokenFromCredentials: none/pending/done/failed
    accepted,           \* tokens the remote service accepts at the moment
    confirmed,          \* last value issued by Generate or validated true
    ev                  \* the last handler that ran and what it was handed

vars == <<tokens, clientCredentials, currentToken, lastRotation, isRotating,
          now, nextFire, att, initPc, accepted, confirmed, ev>>

\* Both client id and client secret are configured (lines 37, 147, 168).
HasCredentials ==
    Truthy(clientCredentials.clientId) /\ Truthy(clientCredentials.clientSecret)

\* The test generateNewToken makes before it calls out, line 93; when it
\* holds, the call throws 'Client credentials not configured' (line 98).
CredentialsMissing ==
    ~Truthy(clientCredentials.clientId) \/ ~Truthy(clientCredentials.clientSecret)

\* The test of line 30 used in place of the test of line 37.
StartsOnClientIdAlone ==
    ~Truthy(tokens.primary) /\ Truthy(clientCredentials.clientId)

\* Whether the constructor starts initializeTokenFromCredentials, line 37.
StartsInitialGeneration == ~Truthy(tokens.primary) /\ HasCredentials

IdleAttempt == [pc |-> "idle", arg |-> None, log |-> <<>>, out |-> "none"]

\* ------------------------------------------------------------------- Init
\* The constructor, lines 4-47.
Init ==
    /\ tokens \in [primary : {None, StaticPrimary},
                   secondary : {None, StaticSecondary},
                   service : {None, StaticService}]
    /\ clientCredentials \in [clientId : {None, "id"},
                              clientSecret : {None, "secret"}]
    /\ currentToken = tokens.primary
    /\ now = 0
    /\ lastRotation = now
    /\ isRotating = FALSE
    /\ nextFire = now + rotationInterval
    /\ att = [i \in Slots |-> IdleAttempt]
    /\ initPc = IF StartsInitialGeneration THEN "pending" ELSE "none"
    /\ accepted \in SUBSET ({tokens.primary, tokens.secondary} \ {None})
    /\ confirmed = None
    /\ ev = [op |-> "constructor", res |-> "none"]

\* ------------------------------------------------- rotateToken, its pieces
\* Suspend invocation i at the outbound call of call site `site`.
Await(i, site, tok, log, rot) ==
    /\ att' = [att EXCEPT ![i] = [pc |-> site, arg |-> tok,
                                  log |-> Append(log, site), out |-> "running"]]
    /\ isRotating' = rot
    /\ UNCHANGED <<currentToken, lastRotation>>

\* No finally block: the flag keeps the value set at line 143.
FinallyMissing == TRUE

\* The finally block, line 210.
FinallyIsRotating == FALSE

\* Adopt tok without stamping lastRotation.
AdoptNoStamp(i, tok, log, outcome) ==
    /\ currentToken' = tok
    /\ UNCHANGED lastRotation
    /\ att' = [att EXCEPT ![i] = [pc |-> "idle", arg |-> None,
                                  log |-> log, out |-> outcome]]
    /\ isRotating' = FinallyIsRotating

\* Adopt tok, stamp lastRotation and leave through finally.
Adopt(i, tok, log, outcome) ==
    /\ currentToken' = tok
    /\ lastRotation' = now
    /\ att' = [att EXCEPT ![i] = [pc |-> "idle", arg |-> None,
                                  log |-> log, out |-> outcome]]
    /\ isRotating' = FinallyIsRotating

\* Leave through finally, dropping the token that was held.
LeaveClears(i, log, outcome) ==
    /\ att' = [att EXCEPT ![i] = [pc |-> "idle", arg |-> None,
                                  log |-> log, out |-> outcome]]
    /\ isRotating' = FinallyIsRotating
    /\ currentToken' = IF outcome = "valid" THEN currentToken ELSE None
    /\ UNCHANGED lastRotation

\* Leave through finally; a fallback candidate that failed validation is
\* adopted all the same.
LeaveAdoptsCandidate(i, log, outcome) ==
    /\ att' = [att EXCEPT ![i] = [pc |-> "idle", arg |-> None,
                                  log |-> log, out |-> outcome]]
    /\ isRotating' = FinallyIsRotating
    /\ currentToken' = IF att[i].pc = "valFb" THEN att[i].arg ELSE currentToken
    /\ UNCHANGED lastRotation

\* Leave through finally without touching the store.
Leave(i, log, outcome) ==
    /\ att' = [att EXCEPT ![i] = [pc |-> "idle", arg |-> None,
                                  log |-> log, out |-> outcome]]
    /\ isRotating' = FinallyIsRotating
    /\ UNCHANGED <<currentToken, lastRotation>>

\* Lines 199-205.
FromSecondary(i, log, rot) ==
    IF Truthy(tokens.secondary)
    THEN Await(i, "valSec", tokens.secondary, log, rot)
    ELSE Leave(i, log, "noValid")

\* The primary token is probed without testing that it is configured.
FromProbeUnchecked(i, log, rot) ==
    Await(i, "valPri", tokens.primary, log, rot)

\* Lines 193-199.
FromProbe(i, log, rot) ==
    IF Truthy(tokens.primary)
    THEN Await(i, "valPri", tokens.primary, log, rot)
    ELSE FromSecondary(i, log, rot)

\* The two branches of the conditional exchanged.
FallbackTokenSwapped ==
    IF currentToken = tokens.primary THEN tokens.primary ELSE tokens.secondary

\* Lines 181-183.
FallbackToken ==
    IF currentToken = tokens.primary THEN tokens.secondary ELSE tokens.primary

\* Lines 180-191.
FromFallback(i, log, rot) ==
    IF Truthy(FallbackToken)
    THEN Await(i, "valFb", FallbackToken, log, rot)
    ELSE Leave(i, log, "allInvalid")

\* The backup token is tried before generation.
FromInvalidBackupFirst(i, log, rot) == FromFallback(i, log, rot)

\* Lines 164-178; a generateNewToken that throws before calling out is
\* caught at line 175 and leaves "credMissing" in the log.
FromInvalid(i, log, rot) ==
    IF HasCredentials
    THEN IF CredentialsMissing
         THEN FromFallback(i, Append(log, "credMissing"), rot)
         ELSE Await(i, "gen1", None, log, rot)
    ELSE FromFallback(i, log, rot)

\* A successful re-validation stamps lastRotation.
WhenValidStamps(i, log) ==
    /\ att' = [att EXCEPT ![i] = [pc |-> "idle", arg |-> None,
                                  log |-> log, out |-> "valid"]]
    /\ isRotating' = FinallyIsRotating
    /\ lastRotation' = now
    /\ UNCHANGED currentToken

\* The test of isValid inverted: a valid token is rotated away.
WhenValidRotates(i, log) == FromInvalid(i, log, isRotating)

\* Lines 162-164, isValid true: nothing is done.
WhenValid(i, log) == Leave(i, log, "valid")

\* Lines 160-162 and 193.
FromTest(i, log, rot) ==
    IF Truthy(currentToken)
    THEN Await(i, "valCur", currentToken, log, rot)
    ELSE FromProbe(i, log, rot)

\* The first branch is taken on the client id alone.
FromEntryOnClientId(i, rot) ==
    IF ~Truthy(currentToken) /\ Truthy(clientCredentials.clientId)
    THEN IF CredentialsMissing
         THEN FromTest(i, <<"credMissing">>, rot)
         ELSE Await(i, "gen0", None, <<>>, rot)
    ELSE FromTest(i, <<>>, rot)

\* Lines 145-158; a generateNewToken that throws before calling out is
\* caught at line 155 and leaves "credMissing" in the log.
FromEntry(i, rot) ==
    IF ~Truthy(currentToken) /\ HasCredentials
    THEN IF CredentialsMissing
         THEN FromTest(i, <<"credMissing">>, rot)
         ELSE Await(i, "gen0", None, <<>>, rot)
    ELSE FromTest(i, <<>>, rot)

\* A guard that never refuses.
EntryGuardOpen == FALSE

\* The entry guard, line 141.
EntryGuard == isRotating

FreeSlots == {i \in Slots : att[i].pc = "idle"}
FreeSlot == CHOOSE i \in FreeSlots : \A j \in FreeSlots : i <= j

\* rotateToken() with a guard that only the timer honours.
RotateTokenManualUnguarded(op) ==
    IF EntryGuard /\ op = "timer"
    THEN /\ ev' = [op |-> op, res |-> "busy"]
         /\ UNCHANGED <<currentToken, lastRotation, isRotating, att>>
    ELSE /\ FreeSlots # {}
         /\ FromEntry(FreeSlot, TRUE)
         /\ ev' = [op |-> op, res |-> "entered"]

\* rotateToken() called by `op`: lines 140-143 and on to the first await.
RotateToken(op) ==
    IF EntryGuard
    THEN /\ ev' = [op |-> op, res |-> "busy"]
         /\ UNCHANGED <<currentToken, lastRotation, isRotating, att>>
    ELSE /\ FreeSlots # {}
         /\ FromEntry(FreeSlot, TRUE)
         /\ ev' = [op |-> op, res |-> "entered"]

\* manualRotate(), lines 233-235.
ManualRotate ==
    /\ RotateToken("manualRotate")
    /\ UNCHANGED <<tokens, clientCredentials, now, nextFire, initPc,
                   accepted, confirmed>>

\* The setInterval callback of startAutoRotation, lines 65-69.
TimerFire ==
    /\ now = nextFire
    /\ nextFire' = nextFire + rotationInterval
    /\ RotateToken("timer")
    /\ UNCHANGED <<tokens, clientCredentials, now, initPc, accepted, confirmed>>

\* --------------------------------------------------------------- responses
\* validateToken, lines 71-90: what it returns for the raw outcome of the
\* GET: "200", "other" (another status) or "error" (transport error, timeout,
\* status outside 2xx).
validateToken(raw) == IF raw = "200" THEN "true" ELSE "false"

\* The raw outcomes the remote service can give for token t.
RawValidate(t) == IF t \in accepted THEN {"200", "other", "error"}
                  ELSE {"other", "error"}

\* The response to a Validate call of invocation i arrives.
ValidateReply(i) ==
    /\ att[i].pc \in {"valCur", "valFb", "valPri", "valSec"}
    /\ \E raw \in RawValidate(att[i].arg) :
         LET r == validateToken(raw)
             a == att[i]
         IN  /\ CASE r = "throw" -> Leave(i, a.log, "error")
                  [] a.pc = "valCur" /\ r = "true" -> WhenValid(i, a.log)
                  [] a.pc = "valCur" /\ r = "false" ->
                        FromInvalid(i, a.log, isRotating)
                  [] a.pc = "valFb" /\ r = "true" ->
                        Adopt(i, a.arg, a.log, "backup")
                  [] a.pc = "valFb" /\ r = "false" ->
                        Leave(i, a.log, "allInvalid")
                  [] a.pc = "valPri" /\ r = "true" ->
                        Adopt(i, tokens.primary, a.log, "primary")
                  [] a.pc = "valPri" /\ r = "false" ->
                        FromSecondary(i, a.log, isRotating)
                  [] a.pc = "valSec" /\ r = "true" ->
                        Adopt(i, tokens.secondary, a.log, "secondary")
                  [] a.pc = "valSec" /\ r = "false" ->
                        Leave(i, a.log, "noValid")
             /\ confirmed' = IF r = "true" THEN a.arg ELSE confirmed
             /\ ev' = [op |-> "validateReply", res |-> r]
    /\ UNCHANGED <<tokens, clientCredentials, now, nextFire, initPc, accepted>>

\* generateNewToken, lines 101-137: "fail" stands for the rethrown error,
\* anything else is the returned accessToken.
GenerateResults == IssuedValues \cup {"fail"}

\* The response to a Generate call of invocation i arrives.
GenerateReply(i) ==
    /\ att[i].pc \in {"gen0", "gen1"}
    /\ \E r \in GenerateResults :
         LET a == att[i]
         IN  /\ IF r # "fail"
                THEN /\ Adopt(i, r, a.log, "generated")
                     /\ accepted' = accepted \cup ({r} \ {None})
                     /\ confirmed' = r
                ELSE /\ IF a.pc = "gen0"
                        THEN FromTest(i, a.log, isRotating)
                        ELSE FromFallback(i, a.log, isRotating)
                     /\ UNCHANGED <<accepted, confirmed>>
             /\ ev' = [op |-> "generateReply", res |-> r]
    /\ UNCHANGED <<tokens, clientCredentials, now, nextFire, initPc>>

\* initializeTokenFromCredentials, lines 49-63, when its Generate returns.
InitGenReply ==
    /\ initPc = "pending"
    /\ \E r \in GenerateResults :
         /\ IF r # "fail"
            THEN /\ currentToken' = r
                 /\ lastRotation' = now
                 /\ initPc' = "done"
                 /\ accepted' = accepted \cup ({r} \ {None})
                 /\ confirmed' = r
            ELSE /\ initPc' = "failed"
                 /\ UNCHANGED <<currentToken, lastRotation, accepted, confirmed>>
         /\ ev' = [op |-> "initReply", res |-> r]
    /\ UNCHANGED <<tokens, clientCredentials, isRotating, now, nextFire, att>>

\* ------------------------------------------------------------- environment
\* Time passes; a due timer fires before the clock moves on.
Tick ==
    /\ now < MaxTime
    /\ now < nextFire
    /\ now' = now + 1
    /\ UNCHANGED <<tokens, clientCredentials, currentToken, lastRotation,
                   isRotating, nextFire, att, initPc, accepted, confirmed, ev>>

\* The remote service stops accepting a token (expiry, revocation).
Revoke ==
    /\ \E t \in accepted : accepted' = accepted \ {t}
    /\ UNCHANGED <<tokens, clientCredentials, currentToken, lastRotation,
                   isRotating, now, nextFire, att, initPc, confirmed, ev>>

\* --------------------------------------------------------------- read path
\* The field itself is reported instead of a flag.
FlagLeaks(x) == x

\* The 'Set' / 'Not Set' flags of getStatus, lines 220-225.
Flag(x) == IF Truthy(x) THEN "Set" ELSE "Not Set"

\* new Date(t).toISOString(), lines 226-227: one string per instant.
ToISOString(t) == <<"ISO-8601", t>>

\* The object getStatus builds from the fields, lines 219-229.
statusSnapshot(cur, toks, creds, last, rotating) ==
    [currentToken |-> Flag(cur),
     primaryToken |-> Flag(toks.primary),
     secondaryToken |-> Flag(toks.secondary),
     serviceToken |-> Flag(toks.service),
     clientId |-> Flag(creds.clientId),
     clientSecret |-> Flag(creds.clientSecret),
     lastRotation |-> ToISOString(last),
     nextRotation |-> ToISOString(last + rotationInterval),
     isRotating |-> rotating]

\* getStatus(), lines 218-230.
getStatus ==
    statusSnapshot(currentToken, tokens, clientCredentials, lastRotation,
                   isRotating)

\* getCurrentToken(), lines 214-216.
getCurrentToken == currentToken

\* getCurrentToken() that starts a rotation when no token is held.
GetCurrentTokenLazy ==
    /\ IF Truthy(currentToken) \/ isRotating \/ FreeSlots = {}
       THEN UNCHANGED <<currentToken, lastRotation, isRotating, att>>
       ELSE FromEntry(FreeSlot, TRUE)
    /\ ev' = [op |-> "getCurrentToken", res |-> getCurrentToken]
    /\ UNCHANGED <<tokens, clientCredentials, now, nextFire, initPc,
                   accepted, confirmed>>

\* A collaborator calls getCurrentToken(), lines 214-216.
GetCurrentTokenCall ==
    /\ ev' = [op |-> "getCurrentToken", res |-> getCurrentToken]
    /\ UNCHANGED <<tokens, clientCredentials, currentToken, lastRotation,
                   isRotating, now, nextFire, att, initPc, accepted, confirmed>>

\* A collaborator calls getStatus(), lines 218-230; what it is handed is
\* getStatus.
GetStatusCall ==
    /\ ev' = [op |-> "getStatus", res |-> "snapshot"]
    /\ UNCHANGED <<tokens, clientCredentials, currentToken, lastRotation,
                   isRotating, now, nextFire, att, initPc, accepted, confirmed>>

Next ==
    \/ ManualRotate
    \/ TimerFire
    \/ \E i \in Slots : ValidateReply(i)
    \/ \E i \in Slots : GenerateReply(i)
    \/ InitGenReply
    \/ Tick
    \/ Revoke
    \/ GetCurrentTokenCall
    \/ GetStatusCall

Spec == Init /\ [][Next]_vars

\* Every outbound call is made with timeout: 10000 (lines 82 and 112), so a
\* suspended invocation is resumed: with the response or with the timeout.
Fairness ==
    \A i \in Slots : WF_vars(ValidateReply(i)) /\ WF_vars(GenerateReply(i))

LiveSpec == Spec /\ Fairness

\* ------------------------------------------------------------------ claims
InFlight == {i \in Slots : att[i].pc # "idle"}

\* C1: at most one rotateToken invocation is past the entry guard and not yet
\* through finally, and isRotating is true exactly while one is.
C1_SingleRotation ==
    /\ Cardinality(InFlight) <= 1
    /\ isRotating <=> InFlight # {}

\* A timer trigger was turned away while an invocation was suspended.
C1_Witness ==
    /\ ev = [op |-> "timer", res |-> "busy"]
    /\ isRotating
    /\ Cardinality(InFlight) = 1

\* A trigger that arrives while isRotating is true.
BusyTrigger == isRotating /\ (ManualRotate \/ TimerFire)

\* C2: a trigger that arrives while isRotating is true changes neither the
\* store nor the guard, issues no call (no invocation's log or position
\* changes) and leaves nothing behind that would run later.
C2_BusyTriggerNoOp ==
    [][BusyTrigger =>
         UNCHANGED <<currentToken, lastRotation, isRotating, att, initPc,
                     accepted, confirmed>>]_vars

\* manualRotate() was turned away while an invocation was suspended.
C2_Witness ==
    /\ ev = [op |-> "manualRotate", res |-> "busy"]
    /\ isRotating
    /\ InFlight # {}

\* Invocation i is handed `true` for the token it held.
ValidHeld(i) ==
    att[i].pc = "valCur" /\ ValidateReply(i) /\ ev'.res = "true"

\* C3: when Validate returns true for the held token, that step ends the
\* invocation, leaves currentToken and lastRotation as they were and issues
\* no call; the invocation's last call is that Validate.
C3_ValidNoChange ==
    /\ [][\A i \in Slots :
            ValidHeld(i) =>
              /\ UNCHANGED <<currentToken, lastRotation>>
              /\ att'[i].pc = "idle"
              /\ att'[i].log = att[i].log]_vars
    /\ [](\A i \in Slots :
            att[i].out = "valid" =>
              /\ att[i].pc = "idle"
              /\ att[i].log[Len(att[i].log)] = "valCur"
              /\ \A k \in 1..Len(att[i].log) :
                    att[i].log[k] \notin {"gen1", "valFb", "valPri", "valSec"})

\* An invocation that began with a token held has just ended on a `true`.
C3_Witness ==
    /\ ev = [op |-> "validateReply", res |-> "true"]
    /\ Truthy(currentToken)
    /\ ~isRotating
    /\ \E i \in Slots : att[i].out = "valid" /\ att[i].log = <<"valCur">>

\* Invocation i, begun without a token, is handed an issued token.
GeneratedFromAbsent(i) ==
    att[i].pc = "gen0" /\ GenerateReply(i) /\ ev'.res # "fail"

\* C4: begun with no token and with both credentials, an invocation whose
\* Generate succeeds ends with the issued value as currentToken and
\* lastRotation at the clock's reading, having made no Validate call.
C4_GenerateWhenAbsent ==
    /\ [][\A i \in Slots :
            GeneratedFromAbsent(i) =>
              /\ currentToken' = ev'.res
              /\ lastRotation' = now
              /\ att'[i].pc = "idle"
              /\ att'[i].log = <<"gen0">>
              /\ ~isRotating']_vars
    /\ [](\A i \in Slots : att[i].pc = "gen0" => HasCredentials)

\* Only credentials configured, and a generated token was adopted later on.
C4_Witness ==
    /\ tokens.primary = None /\ tokens.secondary = None
    /\ ev = [op |-> "generateReply", res |-> "tok-G1"]
    /\ currentToken = "tok-G1"
    /\ lastRotation = now /\ now > 0
    /\ \E i \in Slots : att[i].out = "generated" /\ att[i].log = <<"gen0">>

\* Invocation i finds the held token invalid and cannot generate.
FallbackPoint(i) ==
    \/ att[i].pc = "valCur" /\ ValidateReply(i) /\ ev'.res = "false"
          /\ ~HasCredentials
    \/ att[i].pc = "gen1" /\ GenerateReply(i) /\ ev'.res = "fail"

\* The static token the claim names: the secondary if the held token is the
\* primary, the primary otherwise.
OtherStatic ==
    IF currentToken = tokens.primary THEN tokens.secondary ELSE tokens.primary

\* C5: at the fallback the candidate is the other static token; a missing
\* candidate ends the invocation with nothing changed, and a candidate that
\* validates becomes currentToken with lastRotation stamped.
C5_Fallback ==
    /\ [][\A i \in Slots :
            FallbackPoint(i) =>
              IF OtherStatic # None
              THEN att'[i].pc = "valFb" /\ att'[i].arg = OtherStatic
              ELSE att'[i].pc = "idle"
                   /\ UNCHANGED <<currentToken, lastRotation>>]_vars
    /\ [][\A i \in Slots :
            att[i].pc = "valFb" /\ ValidateReply(i) /\ ev'.res = "true" =>
              /\ currentToken' = att[i].arg
              /\ att[i].arg \in {tokens.primary, tokens.secondary}
              /\ lastRotation' = now
              /\ att'[i].pc = "idle"]_vars

\* The primary was held, failed validation, and the secondary was adopted.
C5_Witness ==
    /\ currentToken = StaticSecondary
    /\ tokens.primary = StaticPrimary
    /\ ev = [op |-> "validateReply", res |-> "true"]
    /\ lastRotation = now /\ now > 0
    /\ \E i \in Slots : att[i].out = "backup"

\* The ways rotateToken's decision tree ends.
TreeOutcomes ==
    {"valid", "generated", "backup", "primary", "secondary",
     "allInvalid", "noValid"}

\* C6: an invocation that ends on a failed call, or that ends without making
\* any call, leaves currentToken and lastRotation as they were and releases
\* the guard; every fault is absorbed by the decision tree, so an invocation
\* only ever ends in one of the tree's outcomes.
C6_FailureLeavesStore ==
    /\ [][\A i \in Slots :
            /\ att'[i] # att[i]
            /\ att'[i].pc = "idle"
            /\ \/ ev'.res \in {"false", "fail"}
               \/ att'[i].log = <<>>
            => /\ UNCHANGED <<currentToken, lastRotation>>
               /\ ~isRotating'
               /\ att'[i].out \in {"allInvalid", "noValid"}]_vars
    /\ [](\A i \in Slots :
            att[i].out \in TreeOutcomes \cup {"none", "running"})

\* Generate failed, no static token is there to try, the token stays absent.
C6_Witness ==
    /\ ev = [op |-> "generateReply", res |-> "fail"]
    /\ currentToken = None
    /\ ~isRotating
    /\ \E i \in Slots : att[i].out = "noValid" /\ att[i].log = <<"gen0">>

\* C7 as stated: a set currentToken is the last value the Generator issued
\* or the Validator confirmed.
C7_LastConfirmed ==
    Truthy(currentToken) => currentToken = confirmed

\* C7 as amended: a set currentToken is the primary token it was seeded with,
\* or the last value issued or confirmed, or the value the startup generation
\* issued; and whenever currentToken changes it becomes the value issued or
\* confirmed in that step.
C7_SeedOrConfirmed ==
    /\ [](Truthy(currentToken) =>
            \/ currentToken = confirmed
            \/ currentToken = tokens.primary /\ initPc = "none"
            \/ currentToken \in GenTokens /\ initPc = "done")
    /\ [][currentToken' # currentToken =>
            /\ currentToken' = confirmed'
            /\ \/ ev'.op \in {"generateReply", "initReply"}
                     /\ ev'.res = currentToken'
               \/ ev'.op = "validateReply" /\ ev'.res = "true"]_vars

\* The seed was validated away and a generated token is held.
C7_Witness ==
    /\ tokens.primary = StaticPrimary
    /\ currentToken \in GenTokens
    /\ currentToken = confirmed
    /\ ev.op = "generateReply"

\* C8: an invocation past the entry guard is resumed until it ends, and the
\* step that ends it resets isRotating, whatever the outcome; so isRotating
\* never stays true forever.
C8_GuardReleased ==
    /\ (isRotating \/ InFlight # {}) ~> (~isRotating /\ InFlight = {})
    /\ [][\A i \in Slots :
            att[i].pc # "idle" /\ att'[i].pc = "idle" => ~isRotating']_vars

\* An invocation ended on a failed call and the guard is free again.
C8_Witness ==
    /\ ev = [op |-> "validateReply", res |-> "false"]
    /\ ~isRotating
    /\ \E i \in Slots : att[i].out = "allInvalid" /\ att[i].pc = "idle"

\* Nothing is configured: no token, no client id, no client secret.
NothingConfigured ==
    /\ tokens = [primary |-> None, secondary |-> None, service |-> None]
    /\ clientCredentials = [clientId |-> None, clientSecret |-> None]

\* C9: with nothing configured getStatus reports every presence flag
\* 'Not Set', currentToken stays absent, and no invocation ever makes a call.
C9_NothingConfigured ==
    NothingConfigured =>
      /\ getStatus.currentToken = "Not Set"
      /\ getStatus.primaryToken = "Not Set"
      /\ getStatus.secondaryToken = "Not Set"
      /\ getStatus.serviceToken = "Not Set"
      /\ getStatus.clientId = "Not Set"
      /\ getStatus.clientSecret = "Not Set"
      /\ getCurrentToken = None
      /\ initPc = "none"
      /\ \A i \in Slots : att[i].pc = "idle" /\ att[i].log = <<>>

\* Nothing is configured and both a manual and a timer cycle have run.
C9_Witness ==
    /\ NothingConfigured
    /\ ev = [op |-> "manualRotate", res |-> "entered"]
    /\ nextFire > rotationInterval
    /\ \E i \in Slots : att[i].out = "noValid"

\* C10: lastRotation changes only in a step that assigns currentToken the
\* value a Generate just returned or a static token that just validated; a
\* step that re-validates the held token, or that ends an invocation without
\* a token obtained, leaves it alone.
C10_StampOnlyOnAdoption ==
    [][lastRotation' # lastRotation =>
         /\ lastRotation' = now
         /\ \/ /\ ev'.op \in {"generateReply", "initReply"}
               /\ ev'.res # "fail"
               /\ currentToken' = ev'.res
            \/ /\ ev'.op = "validateReply"
               /\ ev'.res = "true"
               /\ \E i \in Slots :
                     /\ att[i].pc \in {"valFb", "valPri", "valSec"}
                     /\ att'[i].pc = "idle"
                     /\ att[i].arg \in {tokens.primary, tokens.secondary}
                     /\ currentToken' = att[i].arg]_vars

\* A probed secondary token was adopted and stamped after the clock moved.
C10_Witness ==
    /\ lastRotation = now /\ now > 0
    /\ ev = [op |-> "validateReply", res |-> "true"]
    /\ currentToken = StaticSecondary
    /\ \E i \in Slots : att[i].out = "secondary"

\* C11: every step that changes currentToken or lastRotation is taken while
\* isRotating is true, by the one invocation that is suspended, which that
\* step resumes.
C11_OnlyGuardHolderMutates ==
    [][currentToken' # currentToken \/ lastRotation' # lastRotation =>
         /\ isRotating
         /\ \E i \in Slots :
               /\ InFlight = {i}
               /\ ValidateReply(i) \/ GenerateReply(i)]_vars

\* Every configured string replaced by r, every unset field left unset.
Renamed(r, x) == IF Truthy(x) THEN r ELSE x

\* C12: a store that has the same fields set, the same lastRotation and the
\* same isRotating, but other strings in every field that is set, gives the
\* same getStatus snapshot.
C12_StatusHidesValues ==
    \A r \in {"tok-X", "tok-Y", "Set", "Not Set"} :
      statusSnapshot(
        Renamed(r, currentToken),
        [primary |-> Renamed(r, tokens.primary),
         secondary |-> Renamed(r, tokens.secondary),
         service |-> Renamed(r, tokens.service)],
        [clientId |-> Renamed(r, clientCredentials.clientId),
         clientSecret |-> Renamed(r, clientCredentials.clientSecret)],
        lastRotation, isRotating) = getStatus

\* Everything is configured and a generated token is held.
C12_Witness ==
    /\ currentToken = "tok-G2"
    /\ tokens.secondary = StaticSecondary /\ tokens.service = StaticService
    /\ HasCredentials
    /\ getStatus.currentToken = "Set"

\* C13: getCurrentToken() and getStatus() can be called in every state, leave
\* store, guard, configuration, timer and invocations as they are, and
\* getCurrentToken() hands back currentToken.
C13_ReadsArePure ==
    /\ [][GetCurrentTokenCall \/ GetStatusCall =>
            UNCHANGED <<tokens, clientCredentials, currentToken, lastRotation,
                        isRotating, now, nextFire, att, initPc>>]_vars
    /\ [][GetCurrentTokenCall => ev'.res = currentToken']_vars
    /\ [](ENABLED GetCurrentTokenCall /\ ENABLED GetStatusCall)
    /\ [](getStatus.isRotating = isRotating
            /\ getStatus.lastRotation = ToISOString(lastRotation))

\* getCurrentToken() was called while a rotation was suspended, with no token.
C13_Witness ==
    /\ ev = [op |-> "getCurrentToken", res |-> None]
    /\ isRotating
    /\ \E i \in Slots : att[i].pc = "gen0"

\* C14: the constructor leaves currentToken equal to the primary token; the
\* startup generation exists exactly when the primary token is unset and both
\* credentials are set; when it fails, that step changes neither store, guard,
\* invocations nor timer, the token is still absent if no rotation has run,
\* and a due timer can still fire.
C14_Startup ==
    /\ [](ev.op = "constructor" => currentToken = tokens.primary)
    /\ [](initPc # "none" <=>
            (tokens.primary = None
               /\ clientCredentials.clientId # None
               /\ clientCredentials.clientSecret # None))
    /\ [][InitGenReply /\ ev'.res = "fail" =>
            /\ UNCHANGED <<currentToken, lastRotation, isRotating, att,
                           nextFire>>
            /\ initPc' = "failed"]_vars
    /\ [](/\ ev = [op |-> "initReply", res |-> "fail"]
          /\ \A i \in Slots : att[i].out = "none"
          => currentToken = None /\ lastRotation = 0)
    /\ [](initPc = "failed" /\ now = nextFire => ENABLED TimerFire)

\* The startup generation failed and the timer started a rotation later on.
C14_Witness ==
    /\ initPc = "failed"
    /\ ev = [op |-> "timer", res |-> "entered"]
    /\ currentToken = None
    /\ lastRotation = 0

\* What probing the static tokens in order does for invocation i: Validate
\* the primary if set, else the secondary if set, else end with no change.
ProbesStatics(i) ==
    IF tokens.primary # None
    THEN att'[i].pc = "valPri" /\ att'[i].arg = tokens.primary
    ELSE IF tokens.secondary # None
    THEN att'[i].pc = "valSec" /\ att'[i].arg = tokens.secondary
    ELSE att'[i].pc = "idle" /\ UNCHANGED <<currentToken, lastRotation>>

\* C15: an invocation begun without a token whose Generate fails goes on, in
\* that step, to probe the static tokens, primary first; the secondary is
\* validated only when the primary is unset or has failed validation; the
\* first that validates is adopted and stamped, and if none does nothing
\* changes.
C15_ProbeAfterFailedGenerate ==
    /\ [][\A i \in Slots :
            att[i].pc = "gen0" /\ GenerateReply(i) /\ ev'.res = "fail" =>
              ProbesStatics(i)]_vars
    /\ [][\A i \in Slots :
            att[i].pc # "valSec" /\ att'[i].pc = "valSec" =>
              \/ tokens.primary = None
              \/ att[i].pc = "valPri" /\ ev'.res = "false"]_vars
    /\ [][\A i \in Slots :
            /\ att[i].pc \in {"valPri", "valSec"}
            /\ ValidateReply(i)
            => IF ev'.res = "true"
               THEN currentToken' = att[i].arg /\ lastRotation' = now
               ELSE UNCHANGED <<currentToken, lastRotation>>]_vars

\* The call sequences of an invocation that begins with a token held.
HeldPaths ==
    {<<"valCur">>, <<"valCur", "gen1">>, <<"valCur", "gen1", "valFb">>,
     <<"valCur", "valFb">>}

\* C16: an invocation that begins with a token held validates it first;
\* Generate is issued only in the step that receives `false` for it; the
\* fallback Validate only in the step that receives Generate's failure, or
\* that `false` when credentials are missing; a successful Generate ends it.
C16_CallOrder ==
    /\ [](\A i \in Slots :
            att[i].log # <<>> /\ att[i].log[1] = "valCur" =>
              /\ att[i].log \in HeldPaths
              /\ att[i].log = <<"valCur", "valFb">> => ~HasCredentials
              /\ Len(att[i].log) >= 2 /\ att[i].log[2] = "gen1"
                   => HasCredentials
              /\ att[i].out = "generated" => att[i].log = <<"valCur", "gen1">>)
    /\ [][\A i \in Slots :
            att[i].pc # "gen1" /\ att'[i].pc = "gen1" =>
              /\ att[i].pc = "valCur"
              /\ ev' = [op |-> "validateReply", res |-> "false"]]_vars
    /\ [][\A i \in Slots :
            att[i].pc # "valFb" /\ att'[i].pc = "valFb" =>
              \/ att[i].pc = "gen1"
                    /\ ev' = [op |-> "generateReply", res |-> "fail"]
              \/ att[i].pc = "valCur" /\ ~HasCredentials
                    /\ ev' = [op |-> "validateReply", res |-> "false"]]_vars
    /\ [][\A i \in Slots :
            att[i].pc = "gen1" /\ GenerateReply(i) /\ ev'.res # "fail" =>
              att'[i].pc = "idle" /\ att'[i].log = att[i].log]_vars

\* Held token invalid, Generate failed, the backup token validated.
C16_Witness ==
    \E i \in Slots :
      /\ att[i].log = <<"valCur", "gen1", "valFb">>
      /\ att[i].out = "backup"
      /\ ev = [op |-> "validateReply", res |-> "true"]

\* Invocation i ends in this step with one of the two warnings.
EndsWithoutToken(i) ==
    /\ att'[i] # att[i]
    /\ att'[i].pc = "idle"
    /\ att'[i].out \in {"allInvalid", "noValid"}

InLog(log, site) == \E k \in 1..Len(log) : log[k] = site

\* Invocation i, ending in this step, has had Validate answer false for t.
AnsweredFalse(i, t) ==
    \/ att[i].pc \in {"valCur", "valFb", "valPri", "valSec"} /\ att[i].arg = t
    \/ InLog(att'[i].log, "valPri") /\ t = tokens.primary
    \/ InLog(att'[i].log, "valCur") /\ t = currentToken

\* C17: when an invocation ends with a warning, no configured static token
\* would pass validation: each of primary and secondary is unset, or was
\* answered false in this invocation, or is not accepted by the remote
\* service.
C17_WarningMeansNoneValid ==
    [][\A i \in Slots :
         EndsWithoutToken(i) =>
           \A t \in {tokens.primary, tokens.secondary} \ {None} :
             AnsweredFalse(i, t) \/ t \notin accepted']_vars

\* C18: the nextRotation that getStatus reports is the instant at which the
\* setInterval timer fires next.
C18_NextRotationIsTimer ==
    getStatus.nextRotation = ToISOString(nextFire)

\* The Generate calls awaiting their response, the startup one included.
GeneratesInFlight ==
    Cardinality({i \in Slots : att[i].pc \in {"gen0", "gen1"}})
      + (IF initPc = "pending" THEN 1 ELSE 0)

\* C19: at most one Generate call awaits its response at any instant, the
\* startup generation included, and the startup generation never replaces a
\* token that is already held.
C19_OneGenerateInFlight ==
    /\ [](GeneratesInFlight <= 1)
    /\ [][InitGenReply /\ currentToken' # currentToken =>
            currentToken = None]_vars

\* How many calls of the sites in S the log holds.
Count(log, S) == Cardinality({k \in 1..Len(log) : log[k] \in S})

\* C20: one invocation issues at most one Generate and at most two Validate
\* calls.
C20_CallBudget ==
    \A i \in Slots :
      /\ Count(att[i].log, {"gen0", "gen1"}) <= 1
      /\ Count(att[i].log, {"valCur", "valFb", "valPri", "valSec"}) <= 2

\* C21: once currentToken is set, no step moves it back to absent.
C21_NeverUnset ==
    [][Truthy(currentToken) => Truthy(currentToken')]_vars

\* Exactly one of client id and client secret is configured.
PartialCredentials ==
    Truthy(clientCredentials.clientId) # Truthy(clientCredentials.clientSecret)

\* C22: an invocation calls Generate only when both client id and client
\* secret are configured, and generateNewToken never throws for missing
\* credentials inside rotateToken; with exactly one of the two configured an
\* invocation takes the steps it takes without credentials: on entry those
\* of lines 160-205, and on an invalid held token the backup selection of
\* lines 180-191.
C22_GenerateOnlyWithBoth ==
    /\ [](\A i \in Slots :
            /\ att[i].pc \in {"gen0", "gen1"} => HasCredentials
            /\ InLog(att[i].log, "gen0") \/ InLog(att[i].log, "gen1")
                  => HasCredentials
            /\ ~InLog(att[i].log, "credMissing"))
    /\ [][PartialCredentials /\ ev'.res = "entered"
            /\ (ManualRotate \/ TimerFire) =>
              FromTest(FreeSlot, <<>>, TRUE)]_vars
    /\ [][\A i \in Slots :
            PartialCredentials /\ att[i].pc = "valCur"
              /\ ValidateReply(i) /\ ev'.res = "false" =>
                FromFallback(i, att[i].log, isRotating)]_vars

\* With exactly one of the two configured, a held token was answered false and
\* the invocation went straight to the backup token.
C22_Witness ==
    /\ PartialCredentials
    /\ \E i \in Slots :
         /\ att[i].log = <<"valCur", "valFb">>
         /\ att[i].pc = "valFb"

TypeOK ==
    /\ currentToken \in AllTokens \cup {None}
    /\ lastRotation \in 0..MaxTime
    /\ isRotating \in BOOLEAN
    /\ initPc \in {"none", "pending", "done", "failed"}
    /\ \A i \in Slots : att[i].pc \in {"idle", "gen0", "valCur", "gen1",
                                        "valFb", "valPri", "valSec"}
====
